---- MODULE Spec2Model ----
(***************************************************************************)
(* ZarBox (src/main.py): a single-window invoicing tool.  The model keeps  *)
(* the draft item list, the two order lists, the widgets that display      *)
(* them, the identity form, the pickle file orders.pkl and the last        *)
(* message box shown, and has one action per button handler.               *)
(*                                                                         *)
(* Texts (QLineEdit contents, labels) are sequences of characters, each    *)
(* character a string: "1", ",", " ".  A character outside ASCII is named  *)
(* by its code point, "U+06F0" being the Persian digit zero.               *)
(*                                                                         *)
(* Python floats are binary floating-point numbers rounded to the nearest, *)
(* ties to even.  The model keeps that arithmetic with a shorter mantissa  *)
(* (MantissaBits instead of 53 bits) and a least exponent of -FractionBits:*)
(* [k |-> "fin", v |-> n] is n/Den with Den = 2^FractionBits, and n has at *)
(* most MantissaBits significant bits.  nan and the two infinities are     *)
(* kept as such.                                                           *)
(***************************************************************************)
EXTENDS Integers, Sequences, FiniteSets, TLC

(***************************************************************************)
(* Bounds of the model.                                                    *)
(***************************************************************************)
MaxItems == 2
MaxOid == 2
MaxSaveFailures == 1
FewItems == 1
FewOrders == 1
MantissaBits == 8
MaxTextLen == 5
MaxChars == 3
FractionBits == 12

RECURSIVE Pow2(_)
Pow2(n) == IF n = 0 THEN 1 ELSE 2 * Pow2(n - 1)

(* Finite floats are counted in units of 1/Den.                            *)
Den == Pow2(FractionBits)

----------------------------------------------------------------------------
(* str.strip(), str.replace(",", "")                                        *)

Whitespace == {" ", "\t", "\n"}

RECURSIVE lstrip(_)
lstrip(t) ==
    IF t # <<>> /\ Head(t) \in Whitespace THEN lstrip(Tail(t)) ELSE t

RECURSIVE rstrip(_)
rstrip(t) ==
    IF t # <<>> /\ t[Len(t)] \in Whitespace
    THEN rstrip(SubSeq(t, 1, Len(t) - 1))
    ELSE t

strip(t) == rstrip(lstrip(t))

RemoveCommas(t) == SelectSeq(t, LAMBDA c : c # ",")

----------------------------------------------------------------------------
(* Characters                                                               *)

AsciiDigits == {"0", "1", "2", "3", "4", "5", "6", "7", "8", "9"}
(* Unicode decimal digits: what \d and float() take as a digit.            *)
DecimalDigits == AsciiDigits \cup {"U+06F0"}
AsciiLetters == {"a", "b", "f", "i", "n", "x", "A", "B", "S"}
(* \w: letters, decimal digits and the underscore.                         *)
WordChars == AsciiLetters \cup DecimalDigits \cup {"_"}

DigitVal(c) ==
    CASE c = "0" -> 0 [] c = "1" -> 1 [] c = "2" -> 2 [] c = "3" -> 3
      [] c = "4" -> 4 [] c = "5" -> 5 [] c = "6" -> 6 [] c = "7" -> 7
      [] c = "8" -> 8 [] c = "9" -> 9 [] c = "U+06F0" -> 0

DigitChar(n) ==
    CASE n = 0 -> "0" [] n = 1 -> "1" [] n = 2 -> "2" [] n = 3 -> "3"
      [] n = 4 -> "4" [] n = 5 -> "5" [] n = 6 -> "6" [] n = 7 -> "7"
      [] n = 8 -> "8" [] n = 9 -> "9"

----------------------------------------------------------------------------
(* Floats                                                                   *)

Fin(n) == [k |-> "fin", v |-> n]
NaN == [k |-> "nan", v |-> 0]
Inf(sign) == [k |-> "inf", v |-> sign]
F0 == Fin(0)

Sign(n) == IF n > 0 THEN 1 ELSE IF n < 0 THEN -1 ELSE 0

(* x <= 0 on floats: every comparison with nan is False.                   *)
FLe0(x) ==
    CASE x.k = "fin" -> x.v <= 0
      [] x.k = "inf" -> x.v < 0
      [] x.k = "nan" -> FALSE

(* num/den rounded to an integer, ties to the even one (den > 0).          *)
RoundHalfEven(num, den) ==
    LET q == num \div den
        r == num % den
    IN  IF 2 * r < den THEN q
        ELSE IF 2 * r > den THEN q + 1
        ELSE IF q % 2 = 0 THEN q ELSE q + 1

(* The distance of neighbouring floats at q units: the least power of two *)
(* that leaves q no more than MantissaBits bits.                           *)
RECURSIVE Spacing(_)
Spacing(q) == IF q < Pow2(MantissaBits) THEN 1 ELSE 2 * Spacing(q \div 2)

(* The float nearest to num/den units (num >= 0, den > 0), in units.       *)
RoundToFloat(num, den) ==
    LET s == Spacing(num \div den) IN s * RoundHalfEven(num, den * s)

(* The same for a quotient of either sign.                                 *)
RoundSigned(num, den) ==
    IF num < 0 THEN -RoundToFloat(-num, den) ELSE RoundToFloat(num, den)

FMul(a, b) ==
    CASE a.k = "nan" \/ b.k = "nan" -> NaN
      [] a.k = "fin" /\ b.k = "fin" -> Fin(RoundSigned(a.v * b.v, Den))
      [] OTHER -> IF Sign(a.v) * Sign(b.v) = 0
                  THEN NaN
                  ELSE Inf(Sign(a.v) * Sign(b.v))

FAdd(a, b) ==
    CASE a.k = "nan" \/ b.k = "nan" -> NaN
      [] a.k = "fin" /\ b.k = "fin" -> Fin(RoundSigned(a.v + b.v, 1))
      [] a.k = "inf" /\ b.k = "inf" -> IF a.v = b.v THEN a ELSE NaN
      [] a.k = "inf" -> a
      [] OTHER -> b

(* a / n for a count n > 0.                                                *)
FDiv(a, n) ==
    CASE a.k = "fin" -> Fin(RoundSigned(a.v, n))
      [] OTHER -> a

----------------------------------------------------------------------------
(* float(text)                                                              *)

RECURSIVE DigitsValue(_)
DigitsValue(t) ==
    IF t = <<>> THEN 0
    ELSE 10 * DigitsValue(SubSeq(t, 1, Len(t) - 1)) + DigitVal(t[Len(t)])

RECURSIVE Pow10(_)
Pow10(n) == IF n = 0 THEN 1 ELSE 10 * Pow10(n - 1)

IsDigits(t) == \A i \in 1..Len(t) : t[i] \in DecimalDigits

ValueError == [ok |-> FALSE, val |-> NaN]
Parsed(x) == [ok |-> TRUE, val |-> x]

(* An unsigned float literal: digits with at most one point and at least   *)
(* one digit, or nan, inf, infinity.  The texts of the model hold no       *)
(* exponent, no underscore and no upper-case nan or inf.                   *)
ParseUnsigned(t) ==
    LET dots == {i \in 1..Len(t) : t[i] = "."} IN
    IF t = <<"n", "a", "n">> THEN Parsed(NaN)
    ELSE IF t \in {<<"i", "n", "f">>, <<"i", "n", "f", "i", "n", "i", "t", "y">>}
    THEN Parsed(Inf(1))
    ELSE IF Cardinality(dots) > 1 THEN ValueError
    ELSE LET d == IF dots = {} THEN Len(t) + 1 ELSE CHOOSE i \in dots : TRUE
             ip == SubSeq(t, 1, d - 1)
             fp == SubSeq(t, d + 1, Len(t))
         IN  IF ~IsDigits(ip) \/ ~IsDigits(fp) \/ (ip = <<>> /\ fp = <<>>)
             THEN ValueError
             ELSE Parsed(Fin(RoundToFloat(
                      (DigitsValue(ip) * Pow10(Len(fp)) + DigitsValue(fp)) * Den,
                      Pow10(Len(fp)))))

FNeg(x) ==
    CASE x.k = "nan" -> x
      [] x.k = "inf" -> Inf(-x.v)
      [] x.k = "fin" -> Fin(-x.v)

(* float(): surrounding whitespace is ignored, one sign is allowed.        *)
float(text) ==
    LET s == strip(text) IN
    IF s = <<>> THEN ValueError
    ELSE IF Head(s) = "-"
    THEN LET r == ParseUnsigned(Tail(s)) IN
         IF r.ok THEN Parsed(FNeg(r.val)) ELSE ValueError
    ELSE IF Head(s) = "+" THEN ParseUnsigned(Tail(s))
    ELSE ParseUnsigned(s)

----------------------------------------------------------------------------
(* Formatting: str(n), f"{x:,.0f}", f"{x}"                                  *)

RECURSIVE NatText(_)
NatText(n) ==
    IF n < 10 THEN <<DigitChar(n)>>
    ELSE NatText(n \div 10) \o <<DigitChar(n % 10)>>

(* Digits with a comma before every group of three from the right.         *)
RECURSIVE GroupThousands(_)
GroupThousands(t) ==
    IF Len(t) <= 3 THEN t
    ELSE GroupThousands(SubSeq(t, 1, Len(t) - 3))
         \o <<",">> \o SubSeq(t, Len(t) - 2, Len(t))

IntGrouped(n) ==
    IF n < 0 THEN <<"-">> \o GroupThousands(NatText(-n))
    ELSE GroupThousands(NatText(n))

(* num/den to no decimals, ties to even, with thousands separators.        *)
FormatRatio(num, den) == IntGrouped(RoundHalfEven(num, den))

(* f"{x:,.0f}"                                                             *)
Format0(x) ==
    CASE x.k = "nan" -> <<"n", "a", "n">>
      [] x.k = "inf" -> IF x.v > 0 THEN <<"i", "n", "f">>
                        ELSE <<"-", "i", "n", "f">>
      [] x.k = "fin" -> FormatRatio(x.v, Den)

(* repr of a float shows the fewest digits that float() reads back as the *)
(* same float: the least number of digits after the point, from k on, for  *)
(* which that holds of a units.  FractionBits digits always do.            *)
RECURSIVE ReprDigits(_, _)
ReprDigits(a, k) ==
    IF RoundToFloat(RoundHalfEven(a * Pow10(k), Den) * Den, Pow10(k)) = a
    THEN k
    ELSE ReprDigits(a, k + 1)

(* n written with exactly width digits.                                    *)
RECURSIVE PadDigits(_, _)
PadDigits(n, width) ==
    IF width = 0 THEN <<>>
    ELSE PadDigits(n \div 10, width - 1) \o <<DigitChar(n % 10)>>

(* f"{x}": the repr of a float, such as 1.0, 0.5, 2.25.                    *)
FloatRepr(x) ==
    CASE x.k = "nan" -> <<"n", "a", "n">>
      [] x.k = "inf" -> IF x.v > 0 THEN <<"i", "n", "f">>
                        ELSE <<"-", "i", "n", "f">>
      [] x.k = "fin" ->
            LET a == IF x.v < 0 THEN -x.v ELSE x.v
                digits == IF ReprDigits(a, 0) = 0 THEN 1 ELSE ReprDigits(a, 0)
                c == RoundHalfEven(a * Pow10(digits), Den)
            IN  (IF x.v < 0 THEN <<"-">> ELSE <<>>)
                \o NatText(c \div Pow10(digits)) \o <<".">>
                \o PadDigits(c % Pow10(digits), digits)

----------------------------------------------------------------------------
(* The regular expressions of validate_inputs and edit_order.  A final $   *)
(* matches at the end of the text and also before one trailing newline.    *)

DollarEnds(t) ==
    {Len(t)} \cup (IF t # <<>> /\ t[Len(t)] = "\n" THEN {Len(t) - 1} ELSE {})

(* re.match(r'^09\d{9}$', t)                                               *)
MatchPhone(t) ==
    \E n \in DollarEnds(t) :
        /\ n = 11
        /\ t[1] = "0"
        /\ t[2] = "9"
        /\ \A i \in 3..11 : t[i] \in DecimalDigits

EmailChars == WordChars \cup {".", "-"}

(* re.match(r'^[\w\.-]+@[\w\.-]+\.\w+$', t): a is the place of the @, p    *)
(* the place of the point that ends the second group.                      *)
MatchEmail(t) ==
    \E n \in DollarEnds(t) :
        \E a \in 2..n : \E p \in (a + 2)..(n - 1) :
            /\ \A i \in 1..(a - 1) : t[i] \in EmailChars
            /\ t[a] = "@"
            /\ \A i \in (a + 1)..(p - 1) : t[i] \in EmailChars
            /\ t[p] = "."
            /\ \A i \in (p + 1)..n : t[i] \in WordChars

----------------------------------------------------------------------------
(* Messages shown in message boxes                                          *)

MsgSellerNameEmpty == "seller_name_empty"
MsgBuyerNameEmpty == "buyer_name_empty"
MsgSellerPhoneInvalid == "seller_phone_invalid"
MsgBuyerPhoneInvalid == "buyer_phone_invalid"
MsgSellerEmailInvalid == "seller_email_invalid"
MsgNoItems == "no_items"
MsgItemNameEmpty == "item_name_empty"
MsgInvalidNumber == "price_and_quantity_must_be_positive"
MsgSelectItem == "select_an_item"
MsgSelectOrder == "select_an_order"
MsgSelectUnregistered == "select_an_unregistered_order"
MsgRegistered == "order_registered"
MsgRegisteredTemporarily == "order_registered_temporarily"
MsgEdited == "order_edited"
MsgMoved == "order_moved"
MsgAllDeleted == "all_data_deleted"
MsgNone == "none"

----------------------------------------------------------------------------
(* validate_inputs as it would be without its second test: a faulty        *)
(* variant, against which the properties of finalize are tried.            *)
validate_inputs_without_buyer_name(f) ==
    IF strip(f.seller_name) = <<>>
    THEN [valid |-> FALSE, error |-> MsgSellerNameEmpty]
    ELSE IF f.seller_phone # <<>> /\ ~MatchPhone(f.seller_phone)
    THEN [valid |-> FALSE, error |-> MsgSellerPhoneInvalid]
    ELSE IF f.buyer_phone # <<>> /\ ~MatchPhone(f.buyer_phone)
    THEN [valid |-> FALSE, error |-> MsgBuyerPhoneInvalid]
    ELSE IF f.seller_email # <<>> /\ ~MatchEmail(f.seller_email)
    THEN [valid |-> FALSE, error |-> MsgSellerEmailInvalid]
    ELSE [valid |-> TRUE, error |-> MsgNone]

(* validate_inputs over the texts of the identity form                      *)

validate_inputs(f) ==
    IF strip(f.seller_name) = <<>>
    THEN [valid |-> FALSE, error |-> MsgSellerNameEmpty]
    ELSE IF strip(f.buyer_name) = <<>>
    THEN [valid |-> FALSE, error |-> MsgBuyerNameEmpty]
    ELSE IF f.seller_phone # <<>> /\ ~MatchPhone(f.seller_phone)
    THEN [valid |-> FALSE, error |-> MsgSellerPhoneInvalid]
    ELSE IF f.buyer_phone # <<>> /\ ~MatchPhone(f.buyer_phone)
    THEN [valid |-> FALSE, error |-> MsgBuyerPhoneInvalid]
    ELSE IF f.seller_email # <<>> /\ ~MatchEmail(f.seller_email)
    THEN [valid |-> FALSE, error |-> MsgSellerEmailInvalid]
    ELSE [valid |-> TRUE, error |-> MsgNone]

----------------------------------------------------------------------------
(* Items, orders and what the widgets show of them.  An item is the tuple  *)
(* (name, price, quantity, unit, total): item[5] is Python's item[4].      *)

ItemTotal(item) == item[5]

(* sum(item[4] for item in items): a left fold that starts at the int 0.   *)
RECURSIVE SumTotals(_)
SumTotals(its) ==
    IF its = <<>> THEN F0
    ELSE FAdd(SumTotals(SubSeq(its, 1, Len(its) - 1)), ItemTotal(its[Len(its)]))

(* sum(sum(item[4] for item in order['items']) for order in orders)        *)
RECURSIVE SumOrders(_)
SumOrders(orders) ==
    IF orders = <<>> THEN F0
    ELSE FAdd(SumOrders(SubSeq(orders, 1, Len(orders) - 1)),
              SumTotals(orders[Len(orders)].items))

(* list.pop(): the last element whatever the row.  A faulty variant of     *)
(* RemoveAt.                                                               *)
RemoveAt_last(s, row) == SubSeq(s, 1, Len(s) - 1)

(* list.pop(row), QListWidget.takeItem(row): rows are counted from 1 here. *)
RemoveAt(s, row) == SubSeq(s, 1, row - 1) \o SubSeq(s, row + 1, Len(s))

(* The row add_item appends to list_widget.                                *)
ItemRow(item) ==
    <<item[1], Format0(item[2]), FloatRepr(item[3]), item[4], Format0(item[5])>>

(* The row of order number i in orders_list and unreg_orders_list.         *)
OrderRow(i, order) ==
    <<NatText(i), order.buyer_name, order.date, Format0(SumTotals(order.items))>>

OrderRows(orders) == [i \in 1..Len(orders) |-> OrderRow(i, orders[i])]

(* update_statistics with the orders of both lists summed into the total  *)
(* amount: a faulty variant.                                               *)
update_statistics_of_all_orders(reg, unreg) ==
    LET total_reg_orders == Len(reg)
        total_unreg_orders == Len(unreg)
        total_amount == SumOrders(reg \o unreg)
    IN  [total_reg_orders |-> total_reg_orders,
         total_unreg_orders |-> total_unreg_orders,
         total_amount |-> total_amount,
         avg_order |-> IF total_reg_orders > 0
                       THEN FDiv(total_amount, total_reg_orders)
                       ELSE F0]

(* The four numbers update_statistics computes.                            *)
update_statistics(reg, unreg) ==
    LET total_reg_orders == Len(reg)
        total_unreg_orders == Len(unreg)
        total_amount == SumOrders(reg)
    IN  [total_reg_orders |-> total_reg_orders,
         total_unreg_orders |-> total_unreg_orders,
         total_amount |-> total_amount,
         avg_order |-> IF total_reg_orders > 0
                       THEN FDiv(total_amount, total_reg_orders)
                       ELSE F0]

(* table_data: the value column update_statistics writes to stats_table.   *)
table_data(st) ==
    <<NatText(st.total_reg_orders), NatText(st.total_unreg_orders),
      Format0(st.total_amount), Format0(st.avg_order)>>

Statistics(reg, unreg) == table_data(update_statistics(reg, unreg))

(* sum(item[1] for item in items): the unit prices, a slip of the index.   *)
RECURSIVE SumPrices(_)
SumPrices(its) ==
    IF its = <<>> THEN F0
    ELSE FAdd(SumPrices(SubSeq(its, 1, Len(its) - 1)), its[Len(its)][2])

(* The order dictionary with the unit prices summed into 'total': a faulty *)
(* variant of NewOrder.                                                    *)
NewOrder_total_of_prices(f, its, date, oid) ==
    [date |-> date,
     seller_name |-> f.seller_name,
     seller_phone |-> f.seller_phone,
     seller_email |-> f.seller_email,
     seller_address |-> f.seller_address,
     buyer_name |-> f.buyer_name,
     buyer_phone |-> f.buyer_phone,
     buyer_address |-> f.buyer_address,
     buyer_postal |-> f.buyer_postal,
     buyer_country |-> f.buyer_country,
     items |-> its,
     total |-> SumPrices(its),
     alias |-> FALSE,
     oid |-> oid]

(* The order dictionary with 'items': self.items, the list of the draft    *)
(* itself instead of a copy of it: a faulty variant of NewOrder.           *)
NewOrder_without_copy(f, its, date, oid) ==
    [date |-> date,
     seller_name |-> f.seller_name,
     seller_phone |-> f.seller_phone,
     seller_email |-> f.seller_email,
     seller_address |-> f.seller_address,
     buyer_name |-> f.buyer_name,
     buyer_phone |-> f.buyer_phone,
     buyer_address |-> f.buyer_address,
     buyer_postal |-> f.buyer_postal,
     buyer_country |-> f.buyer_country,
     items |-> its,
     total |-> SumTotals(its),
     alias |-> TRUE,
     oid |-> oid]

(* The order dictionary both finalize handlers build.  Two fields are not  *)
(* keys of the dictionary.  oid names the finalize call that created the   *)
(* order and travels with every copy of it.  alias says whether            *)
(* order['items'] is the list object self.items: self.items.copy() is a    *)
(* new list, so it is not.                                                 *)
NewOrder(f, its, date, oid) ==
    [date |-> date,
     seller_name |-> f.seller_name,
     seller_phone |-> f.seller_phone,
     seller_email |-> f.seller_email,
     seller_address |-> f.seller_address,
     buyer_name |-> f.buyer_name,
     buyer_phone |-> f.buyer_phone,
     buyer_address |-> f.buyer_address,
     buyer_postal |-> f.buyer_postal,
     buyer_country |-> f.buyer_country,
     items |-> its,
     total |-> SumTotals(its),
     alias |-> FALSE,
     oid |-> oid]

(* get_updated_order with the buyer's name written under 'seller_name'    *)
(* too: a faulty variant.                                                  *)
get_updated_order_seller_overwritten(order, d) ==
    [date |-> order.date,
     seller_name |-> strip(d.buyer_name),
     seller_phone |-> order.seller_phone,
     seller_email |-> order.seller_email,
     seller_address |-> order.seller_address,
     buyer_name |-> strip(d.buyer_name),
     buyer_phone |-> strip(d.buyer_phone),
     buyer_address |-> strip(d.buyer_address),
     buyer_postal |-> strip(d.buyer_postal),
     buyer_country |-> strip(d.buyer_country),
     items |-> order.items,
     total |-> order.total,
     alias |-> order.alias,
     oid |-> order.oid]

(* self.items is one list object from __init__ on: append, pop and clear   *)
(* change it in place, and with it the 'items' of every order that holds   *)
(* this same object.                                                       *)
through_alias(orders, its) ==
    [i \in 1..Len(orders) |->
        IF orders[i].alias THEN [orders[i] EXCEPT !.items = its] ELSE orders[i]]

(* EditOrderDialog.get_updated_order: d holds the texts of the five        *)
(* QLineEdits of the dialog.                                               *)
get_updated_order(order, d) ==
    [date |-> order.date,
     seller_name |-> order.seller_name,
     seller_phone |-> order.seller_phone,
     seller_email |-> order.seller_email,
     seller_address |-> order.seller_address,
     buyer_name |-> strip(d.buyer_name),
     buyer_phone |-> strip(d.buyer_phone),
     buyer_address |-> strip(d.buyer_address),
     buyer_postal |-> strip(d.buyer_postal),
     buyer_country |-> strip(d.buyer_country),
     items |-> order.items,
     total |-> order.total,
     alias |-> order.alias,
     oid |-> order.oid]

----------------------------------------------------------------------------
(* The file orders.pkl.  A blob is what the bytes of the file unpickle to: *)
(* a dictionary (a record: the keys it holds and their values), or bytes   *)
(* that pickle.load refuses in one of the ways it can.                     *)

AbsentFile == [exists |-> FALSE, readable |-> TRUE, blob |-> [k |-> "truncated"]]
FileOf(blob) == [exists |-> TRUE, readable |-> TRUE, blob |-> blob]
UnreadableFile(blob) == [exists |-> TRUE, readable |-> FALSE, blob |-> blob]

DictBlob(obj) == [k |-> "dict", obj |-> obj]
TruncatedBlob == [k |-> "truncated"]
GarbageBlob == [k |-> "garbage"]
BadLiteralBlob == [k |-> "bad_literal"]
ListBlob == [k |-> "list"]

(* What pickle.load raises on a blob.                                      *)
PickleLoadRaises(blob) ==
    CASE blob.k = "truncated" -> "EOFError"
      [] blob.k = "garbage" -> "UnpicklingError"
      [] blob.k = "bad_literal" -> "ValueError"
      [] OTHER -> "none"

(* data.get(key, [])                                                       *)
DictGet(obj, key) == IF key \in DOMAIN obj THEN obj[key] ELSE <<>>

(* A misspelt key: a faulty variant of LoadKeyUnregistered.                 *)
LoadKeyMisspelt == "unregisterd"

LoadKeyRegistered == "registered"
LoadKeyUnregistered == "unregistered"

(* The exceptions load_data catches.                                       *)
LoadCaught == {"UnpicklingError", "EOFError", "AttributeError"}

(* load_data: the exception that leaves it ("none" when it returns) and    *)
(* the two lists as it leaves them; they are [] when it is entered.        *)
load_data(file) ==
    LET raised ==
            IF ~file.exists THEN "none"
            ELSE IF ~file.readable THEN "PermissionError"
            ELSE IF PickleLoadRaises(file.blob) # "none"
            THEN PickleLoadRaises(file.blob)
            ELSE IF file.blob.k # "dict" THEN "AttributeError"
            ELSE "none"
        loaded == /\ file.exists
                  /\ file.readable
                  /\ file.blob.k = "dict"
    IN  IF loaded
        THEN [raised |-> "none",
              registered |-> DictGet(file.blob.obj, LoadKeyRegistered),
              unregistered |-> DictGet(file.blob.obj, LoadKeyUnregistered)]
        ELSE [raised |-> IF raised \in LoadCaught THEN "none" ELSE raised,
              registered |-> <<>>,
              unregistered |-> <<>>]

(* save_data with the registered list dumped under both keys: a faulty     *)
(* variant.                                                                *)
save_data_registered_twice(file, reg, unreg, outcome) ==
    CASE outcome = "open_fails" -> file
      [] outcome = "dump_fails" -> FileOf(TruncatedBlob)
      [] outcome = "ok" ->
            FileOf(DictBlob([registered |-> reg, unregistered |-> reg]))

(* save_data: open(..., 'wb') fails and leaves the file as it is, or the   *)
(* file is emptied and pickle.dump fails on the way, or the dictionary is  *)
(* written.  Every exception is swallowed.                                 *)
save_data(file, reg, unreg, outcome) ==
    CASE outcome = "open_fails" -> file
      [] outcome = "dump_fails" -> FileOf(TruncatedBlob)
      [] outcome = "ok" ->
            FileOf(DictBlob([registered |-> reg, unregistered |-> unreg]))

----------------------------------------------------------------------------
(* State                                                                    *)

VARIABLES
    phase,                \* "start" (constructed, nothing loaded), "running", "crashed"
    items,                \* self.items
    list_widget,          \* rows of the draft item list widget
    total_label,          \* the number shown by total_label, as text
    form,                 \* texts of the nine identity QLineEdits
    registered_orders,    \* self.registered_orders
    unregistered_orders,  \* self.unregistered_orders
    orders_list,          \* rows of the registered orders widget
    unreg_orders_list,    \* rows of the unregistered orders widget
    stats_table,          \* value column of the statistics table
    orders_pkl,           \* the file self.data_file names
    last,                 \* the last handler run, the message box it ended with, its save
    next_oid,             \* number of the next finalize call
    save_failures,        \* how often save_data has failed so far
    wrap                  \* the locals of a call of wrap_text, and where it is

vars == <<phase, items, list_widget, total_label, form, registered_orders,
          unregistered_orders, orders_list, unreg_orders_list, stats_table,
          orders_pkl, last, next_oid, save_failures, wrap>>

(* No call of wrap_text is under way.                                      *)
NoCall == [pc |-> "none"]

EmptyForm ==
    [seller_name |-> <<>>, seller_phone |-> <<>>, seller_email |-> <<>>,
     seller_address |-> <<>>, buyer_name |-> <<>>, buyer_phone |-> <<>>,
     buyer_address |-> <<>>, buyer_postal |-> <<>>, buyer_country |-> <<>>]

(* What a handler did: the row it was given (0: none), the answer to its   *)
(* confirmation question ("none": not asked), the message box it ended     *)
(* with and how its call of save_data ended ("none": not called).          *)
Event(op, row, answer, msg, save) ==
    [op |-> op, row |-> row, answer |-> answer, msg |-> msg, save |-> save]

(* The event of edit_order after an accepted dialog: typed holds the texts *)
(* of the QLineEdits of the dialog as the user left them.                  *)
EditEvent(row, dialog, msg, save) ==
    [op |-> "edit_order", row |-> row, answer |-> "yes", msg |-> msg,
     save |-> save, typed |-> dialog]

(* Between two handlers the event loop waits: no handler is running and    *)
(* no message box is open.                                                 *)
Idle == Event("idle", 0, "none", MsgNone, "none")
Ready == phase = "running" /\ last = Idle

(* The files a first start may find.                                       *)
InitialFiles ==
    {AbsentFile,
     FileOf(TruncatedBlob),
     FileOf(GarbageBlob),
     FileOf(BadLiteralBlob),
     FileOf(ListBlob),
     FileOf(DictBlob([unregistered |-> <<>>])),
     UnreadableFile(DictBlob([registered |-> <<>>, unregistered |-> <<>>]))}

(* InvoiceApp.__init__ up to the call of load_data.                        *)
Init ==
    /\ phase = "start"
    /\ items = <<>>
    /\ list_widget = <<>>
    /\ total_label = <<>>
    /\ form = EmptyForm
    /\ registered_orders = <<>>
    /\ unregistered_orders = <<>>
    /\ orders_list = <<>>
    /\ unreg_orders_list = <<>>
    /\ stats_table = <<>>
    /\ orders_pkl \in InitialFiles
    /\ last = Event("init", 0, "none", MsgNone, "none")
    /\ next_oid = 1
    /\ save_failures = 0
    /\ wrap = NoCall

(* The rest of __init__: load_data, then init_ui builds the widgets from   *)
(* the loaded lists.  An exception that leaves load_data ends the process. *)
Startup ==
    /\ phase = "start"
    /\ LET r == load_data(orders_pkl) IN
       IF r.raised # "none"
       THEN /\ phase' = "crashed"
            /\ last' = Event("startup", 0, "none", r.raised, "none")
            /\ UNCHANGED <<registered_orders, unregistered_orders, orders_list,
                           unreg_orders_list, stats_table, total_label>>
       ELSE /\ phase' = "running"
            /\ registered_orders' = r.registered
            /\ unregistered_orders' = r.unregistered
            /\ orders_list' = OrderRows(r.registered)
            /\ unreg_orders_list' = OrderRows(r.unregistered)
            /\ stats_table' = Statistics(r.registered, r.unregistered)
            /\ total_label' = <<"U+06F0">>
            /\ last' = Event("startup", 0, "none", MsgNone, "none")
    /\ UNCHANGED <<items, list_widget, form, orders_pkl, next_oid,
                   save_failures, wrap>>

(* close_btn: the window closes and the process ends; the next start       *)
(* begins from the constructor with the file as it was left.               *)
Close ==
    /\ Ready
    /\ phase' = "start"
    /\ items' = <<>>
    /\ list_widget' = <<>>
    /\ total_label' = <<>>
    /\ form' = EmptyForm
    /\ registered_orders' = <<>>
    /\ unregistered_orders' = <<>>
    /\ orders_list' = <<>>
    /\ unreg_orders_list' = <<>>
    /\ stats_table' = <<>>
    /\ last' = Event("init", 0, "none", MsgNone, "none")
    /\ UNCHANGED <<orders_pkl, next_oid, save_failures, wrap>>

(* app.exec_(): the slot has returned, its message box is dismissed, and  *)
(* the event loop waits for the next click.                                *)
EventLoop ==
    /\ phase = "running"
    /\ last # Idle
    /\ last' = Idle
    /\ UNCHANGED <<phase, items, list_widget, total_label, form,
                   registered_orders, unregistered_orders, orders_list,
                   unreg_orders_list, stats_table, orders_pkl, next_oid,
                   save_failures, wrap>>

----------------------------------------------------------------------------
(* Pieces shared by the handlers                                            *)

(* A handler that ends after a message box (or without one) having changed *)
(* nothing.                                                                *)
Returns(op, row, answer, msg) ==
    /\ last' = Event(op, row, answer, msg, "none")
    /\ UNCHANGED <<phase, items, list_widget, total_label, form,
                   registered_orders, unregistered_orders, orders_list,
                   unreg_orders_list, stats_table, orders_pkl, next_oid,
                   save_failures, wrap>>

(* An exception that leaves a slot ends the process.                       *)
Raises(op, row, exception) ==
    /\ phase' = "crashed"
    /\ last' = Event(op, row, "yes", exception, "none")
    /\ UNCHANGED <<items, list_widget, total_label, form, registered_orders,
                   unregistered_orders, orders_list, unreg_orders_list,
                   stats_table, orders_pkl, next_oid, save_failures, wrap>>

(* selectedItems(): no row (0) or one row of the widget.                   *)
Selections(widget) == 0..Len(widget)

(* How a call of save_data may end.                                        *)
SaveOutcomes(D) ==
    IF save_failures < D.max_save_failures
    THEN {"ok", "open_fails", "dump_fails"}
    ELSE {"ok"}

Saved(outcome) ==
    save_failures' = IF outcome = "ok" THEN save_failures ELSE save_failures + 1

(* update_total over the unit prices: a faulty variant.                    *)
update_total_of_prices(its) == Format0(SumPrices(its))

(* update_total: the text total_label is given.                            *)
update_total(its) == Format0(SumTotals(its))

(* The finalize handlers without their test of self.items: a faulty        *)
(* variant of finalize_check.                                              *)
finalize_check_identity_only(f, its) ==
    LET v == validate_inputs(f) IN
    IF ~v.valid THEN v.error ELSE MsgNone

(* The checks of both finalize handlers, in their order: the message of    *)
(* the first that fails.                                                   *)
finalize_check(f, its) ==
    LET v == validate_inputs(f) IN
    IF ~v.valid THEN v.error
    ELSE IF its = <<>> THEN MsgNoItems
    ELSE MsgNone

(* edit_order without its test of the buyer's name: a faulty variant of    *)
(* edit_check.                                                             *)
edit_check_phone_only(updated_order) ==
    IF updated_order.buyer_phone # <<>> /\ ~MatchPhone(updated_order.buyer_phone)
    THEN MsgBuyerPhoneInvalid
    ELSE MsgNone

(* The checks of edit_order on the dictionary the dialog returns.          *)
edit_check(updated_order) ==
    IF strip(updated_order.buyer_name) = <<>> THEN MsgBuyerNameEmpty
    ELSE IF updated_order.buyer_phone # <<>> /\ ~MatchPhone(updated_order.buyer_phone)
    THEN MsgBuyerPhoneInvalid
    ELSE MsgNone

(* order = unregistered.pop(): the last order instead of the selected      *)
(* one.  A faulty variant of move_lists.                                   *)
move_lists_pop_last(reg, unreg, row) ==
    [registered |-> Append(reg, unreg[Len(unreg)]),
     unregistered |-> SubSeq(unreg, 1, Len(unreg) - 1)]

(* order = unregistered[row]: the order is appended and never removed.  A  *)
(* faulty variant of move_lists.                                           *)
move_lists_without_pop(reg, unreg, row) ==
    [registered |-> Append(reg, unreg[row]),
     unregistered |-> unreg]

(* move_to_registered: order = unregistered.pop(row); registered.append.   *)
move_lists(reg, unreg, row) ==
    [registered |-> Append(reg, unreg[row]),
     unregistered |-> RemoveAt(unreg, row)]

----------------------------------------------------------------------------
(* The user types into the identity form.                                   *)

FillForm(D) ==
    /\ Ready
    /\ \E f \in D.forms :
        /\ form' = f
        /\ last' = Event("type", 0, "none", MsgNone, "none")
    /\ UNCHANGED <<phase, items, list_widget, total_label, registered_orders,
                   unregistered_orders, orders_list, unreg_orders_list,
                   stats_table, orders_pkl, next_oid, save_failures, wrap>>

----------------------------------------------------------------------------
(* Draft handlers                                                           *)

add_item(D) ==
    /\ Ready
    /\ \E name_text \in D.item_names, price_text \in D.item_prices,
          quantity_text \in D.item_quantities, unit \in D.item_units :
        LET name == strip(name_text)
            price == float(strip(RemoveCommas(price_text)))
            quantity == float(strip(quantity_text))
        IN  IF name = <<>> THEN Returns("add_item", 0, "none", MsgItemNameEmpty)
            ELSE IF \/ ~price.ok
                    \/ ~quantity.ok
                    \/ FLe0(price.val)
                    \/ FLe0(quantity.val)
            THEN Returns("add_item", 0, "none", MsgInvalidNumber)
            ELSE LET total == FMul(price.val, quantity.val)
                     item == <<name, price.val, quantity.val, unit, total>>
                 IN  /\ Len(items) < D.max_items
                     /\ items' = Append(items, item)
                     /\ list_widget' = Append(list_widget, ItemRow(item))
                     /\ total_label' = update_total(Append(items, item))
                     /\ registered_orders'
                          = through_alias(registered_orders, Append(items, item))
                     /\ unregistered_orders'
                          = through_alias(unregistered_orders, Append(items, item))
                     /\ last' = Event("add_item", 0, "none", MsgNone, "none")
                     /\ UNCHANGED <<phase, form, orders_list,
                                    unreg_orders_list, stats_table, orders_pkl,
                                    next_oid, save_failures, wrap>>

delete_item ==
    /\ Ready
    /\ \E row \in Selections(list_widget), yes \in BOOLEAN :
        IF row = 0 THEN Returns("delete_item", 0, "none", MsgSelectItem)
        ELSE IF ~yes THEN Returns("delete_item", row, "no", MsgNone)
        ELSE IF row > Len(items) THEN Raises("delete_item", row, "IndexError")
        ELSE /\ list_widget' = RemoveAt(list_widget, row)
             /\ items' = RemoveAt(items, row)
             /\ total_label' = update_total(RemoveAt(items, row))
             /\ registered_orders'
                  = through_alias(registered_orders, RemoveAt(items, row))
             /\ unregistered_orders'
                  = through_alias(unregistered_orders, RemoveAt(items, row))
             /\ last' = Event("delete_item", row, "yes", MsgNone, "none")
             /\ UNCHANGED <<phase, form, orders_list, unreg_orders_list,
                            stats_table, orders_pkl, next_oid, save_failures,
                            wrap>>

(* clear_items with the identity fields cleared as clear_form clears       *)
(* them: a faulty variant.                                                 *)
clear_items_and_identity ==
    /\ Ready
    /\ \E yes \in BOOLEAN :
        IF ~yes THEN Returns("clear_items", 0, "no", MsgNone)
        ELSE /\ items' = <<>>
             /\ list_widget' = <<>>
             /\ form' = EmptyForm
             /\ total_label' = update_total(<<>>)
             /\ registered_orders' = through_alias(registered_orders, <<>>)
             /\ unregistered_orders' = through_alias(unregistered_orders, <<>>)
             /\ last' = Event("clear_items", 0, "yes", MsgNone, "none")
             /\ UNCHANGED <<phase, orders_list, unreg_orders_list,
                            stats_table, orders_pkl, next_oid, save_failures,
                            wrap>>

clear_items ==
    /\ Ready
    /\ \E yes \in BOOLEAN :
        IF ~yes THEN Returns("clear_items", 0, "no", MsgNone)
        ELSE /\ items' = <<>>
             /\ list_widget' = <<>>
             /\ total_label' = update_total(<<>>)
             /\ registered_orders' = through_alias(registered_orders, <<>>)
             /\ unregistered_orders' = through_alias(unregistered_orders, <<>>)
             /\ last' = Event("clear_items", 0, "yes", MsgNone, "none")
             /\ UNCHANGED <<phase, form, orders_list, unreg_orders_list,
                            stats_table, orders_pkl, next_oid, save_failures,
                            wrap>>

(* clear_form without the nine clear() calls of the identity fields: a     *)
(* faulty variant.                                                         *)
clear_form_keeping_identity ==
    /\ items' = <<>>
    /\ list_widget' = <<>>
    /\ form' = form
    /\ total_label' = update_total(<<>>)

(* clear_form, as both finalize handlers call it: the draft and the nine   *)
(* identity fields are emptied and the total is shown again.  The handlers *)
(* state what self.items.clear() does to the two order lists.              *)
clear_form ==
    /\ items' = <<>>
    /\ list_widget' = <<>>
    /\ form' = EmptyForm
    /\ total_label' = update_total(<<>>)

----------------------------------------------------------------------------
(* Ledger handlers                                                          *)

add_to_registered_orders(D) ==
    /\ Ready
    /\ \E date \in D.dates, outcome \in SaveOutcomes(D) :
        LET msg == finalize_check(form, items) IN
        IF msg # MsgNone THEN Returns("add_to_registered_orders", 0, "none", msg)
        ELSE LET order == NewOrder(form, items, date, next_oid)
                 reg == Append(registered_orders, order)
             IN  /\ next_oid <= D.max_oid
                 /\ registered_orders' = through_alias(reg, <<>>)
                 /\ unregistered_orders' = through_alias(unregistered_orders, <<>>)
                 /\ orders_pkl' = save_data(orders_pkl, reg, unregistered_orders, outcome)
                 /\ Saved(outcome)
                 /\ orders_list' = OrderRows(reg)
                 /\ stats_table' = Statistics(reg, unregistered_orders)
                 /\ clear_form
                 /\ last' = Event("add_to_registered_orders", 0, "none", MsgRegistered, outcome)
                 /\ next_oid' = next_oid + 1
                 /\ UNCHANGED <<phase, unreg_orders_list, wrap>>

add_to_unregistered_orders(D) ==
    /\ Ready
    /\ \E date \in D.dates, outcome \in SaveOutcomes(D) :
        LET msg == finalize_check(form, items) IN
        IF msg # MsgNone THEN Returns("add_to_unregistered_orders", 0, "none", msg)
        ELSE LET order == NewOrder(form, items, date, next_oid)
                 unreg == Append(unregistered_orders, order)
             IN  /\ next_oid <= D.max_oid
                 /\ unregistered_orders' = through_alias(unreg, <<>>)
                 /\ registered_orders' = through_alias(registered_orders, <<>>)
                 /\ orders_pkl' = save_data(orders_pkl, registered_orders, unreg, outcome)
                 /\ Saved(outcome)
                 /\ unreg_orders_list' = OrderRows(unreg)
                 /\ stats_table' = Statistics(registered_orders, unreg)
                 /\ clear_form
                 /\ last' = Event("add_to_unregistered_orders", 0, "none",
                                  MsgRegisteredTemporarily, outcome)
                 /\ next_oid' = next_oid + 1
                 /\ UNCHANGED <<phase, orders_list, wrap>>

(* edit_order with a dialog that writes the texts into order_list[row]     *)
(* itself before the handler has tested them: a faulty variant.            *)
edit_order_in_place(D, is_registered) ==
    /\ Ready
    /\ \E row \in 1..Len(IF is_registered THEN orders_list ELSE unreg_orders_list),
          accepted \in BOOLEAN, outcome \in SaveOutcomes(D) :
        LET order_list == IF is_registered THEN registered_orders
                          ELSE unregistered_orders
        IN  IF row > Len(order_list) THEN Raises("edit_order", row, "IndexError")
            ELSE \E name_text \in D.edit_names \cup {order_list[row].buyer_name},
                    phone_text \in D.edit_phones \cup {order_list[row].buyer_phone} :
                LET order == order_list[row]
                    dialog == [buyer_name |-> name_text,
                               buyer_phone |-> phone_text,
                               buyer_address |-> order.buyer_address,
                               buyer_postal |-> order.buyer_postal,
                               buyer_country |-> order.buyer_country]
                    updated_order == get_updated_order(order, dialog)
                    msg == edit_check(updated_order)
                    new_list == [order_list EXCEPT ![row] = updated_order]
                    reg == IF is_registered THEN new_list ELSE registered_orders
                    unreg == IF is_registered THEN unregistered_orders ELSE new_list
                IN  IF ~accepted THEN Returns("edit_order", row, "no", MsgNone)
                    ELSE IF msg # MsgNone
                    THEN /\ registered_orders' = reg
                         /\ unregistered_orders' = unreg
                         /\ last' = EditEvent(row, dialog, msg, "none")
                         /\ UNCHANGED <<phase, items, list_widget, total_label,
                                        form, orders_list, unreg_orders_list,
                                        stats_table, orders_pkl, next_oid,
                                        save_failures, wrap>>
                    ELSE /\ registered_orders' = reg
                         /\ unregistered_orders' = unreg
                         /\ orders_pkl' = save_data(orders_pkl, reg, unreg, outcome)
                         /\ Saved(outcome)
                         /\ orders_list' = IF is_registered THEN OrderRows(reg)
                                           ELSE orders_list
                         /\ unreg_orders_list' = IF is_registered
                                                 THEN unreg_orders_list
                                                 ELSE OrderRows(unreg)
                         /\ stats_table' = Statistics(reg, unreg)
                         /\ last' = EditEvent(row, dialog, MsgEdited, outcome)
                         /\ UNCHANGED <<phase, items, list_widget, total_label,
                                        form, next_oid, wrap>>

(* A double click on a row opens the dialog on order_list[row]; the user   *)
(* may retype the buyer's name and phone and accepts or cancels.           *)
edit_order(D, is_registered) ==
    /\ Ready
    /\ \E row \in 1..Len(IF is_registered THEN orders_list ELSE unreg_orders_list),
          accepted \in BOOLEAN, outcome \in SaveOutcomes(D) :
        LET order_list == IF is_registered THEN registered_orders
                          ELSE unregistered_orders
        IN  IF row > Len(order_list) THEN Raises("edit_order", row, "IndexError")
            ELSE \E name_text \in D.edit_names \cup {order_list[row].buyer_name},
                    phone_text \in D.edit_phones \cup {order_list[row].buyer_phone} :
                LET order == order_list[row]
                    dialog == [buyer_name |-> name_text,
                               buyer_phone |-> phone_text,
                               buyer_address |-> order.buyer_address,
                               buyer_postal |-> order.buyer_postal,
                               buyer_country |-> order.buyer_country]
                    updated_order == get_updated_order(order, dialog)
                    msg == edit_check(updated_order)
                    new_list == [order_list EXCEPT ![row] = updated_order]
                    reg == IF is_registered THEN new_list ELSE registered_orders
                    unreg == IF is_registered THEN unregistered_orders ELSE new_list
                IN  IF ~accepted THEN Returns("edit_order", row, "no", MsgNone)
                    ELSE IF msg # MsgNone
                    THEN /\ last' = EditEvent(row, dialog, msg, "none")
                         /\ UNCHANGED <<phase, items, list_widget, total_label,
                                        form, registered_orders,
                                        unregistered_orders, orders_list,
                                        unreg_orders_list, stats_table,
                                        orders_pkl, next_oid, save_failures,
                                        wrap>>
                    ELSE /\ registered_orders' = reg
                         /\ unregistered_orders' = unreg
                         /\ orders_pkl' = save_data(orders_pkl, reg, unreg, outcome)
                         /\ Saved(outcome)
                         /\ orders_list' = IF is_registered THEN OrderRows(reg)
                                           ELSE orders_list
                         /\ unreg_orders_list' = IF is_registered
                                                 THEN unreg_orders_list
                                                 ELSE OrderRows(unreg)
                         /\ stats_table' = Statistics(reg, unreg)
                         /\ last' = EditEvent(row, dialog, MsgEdited, outcome)
                         /\ UNCHANGED <<phase, items, list_widget, total_label,
                                        form, next_oid, wrap>>

move_to_registered(D) ==
    /\ Ready
    /\ \E row \in Selections(unreg_orders_list), yes \in BOOLEAN,
          outcome \in SaveOutcomes(D) :
        IF row = 0 THEN Returns("move_to_registered", 0, "none", MsgSelectUnregistered)
        ELSE IF ~yes THEN Returns("move_to_registered", row, "no", MsgNone)
        ELSE IF row > Len(unregistered_orders)
        THEN Raises("move_to_registered", row, "IndexError")
        ELSE LET moved == move_lists(registered_orders, unregistered_orders, row)
             IN  /\ registered_orders' = moved.registered
                 /\ unregistered_orders' = moved.unregistered
                 /\ orders_pkl' = save_data(orders_pkl, moved.registered,
                                            moved.unregistered, outcome)
                 /\ Saved(outcome)
                 /\ orders_list' = OrderRows(moved.registered)
                 /\ unreg_orders_list' = OrderRows(moved.unregistered)
                 /\ stats_table' = Statistics(moved.registered, moved.unregistered)
                 /\ last' = Event("move_to_registered", row, "yes", MsgMoved, outcome)
                 /\ UNCHANGED <<phase, items, list_widget, total_label, form,
                                next_oid, wrap>>

(* delete_registered_order without orders_list.takeItem(row): a faulty     *)
(* variant.                                                                *)
delete_registered_order_without_takeItem(D) ==
    /\ Ready
    /\ \E row \in Selections(orders_list), yes \in BOOLEAN,
          outcome \in SaveOutcomes(D) :
        IF row = 0 THEN Returns("delete_registered_order", 0, "none", MsgSelectOrder)
        ELSE IF ~yes THEN Returns("delete_registered_order", row, "no", MsgNone)
        ELSE IF row > Len(registered_orders)
        THEN Raises("delete_registered_order", row, "IndexError")
        ELSE LET reg == RemoveAt(registered_orders, row) IN
             /\ registered_orders' = reg
             /\ orders_pkl' = save_data(orders_pkl, reg, unregistered_orders, outcome)
             /\ Saved(outcome)
             /\ stats_table' = Statistics(reg, unregistered_orders)
             /\ last' = Event("delete_registered_order", row, "yes", MsgNone, outcome)
             /\ UNCHANGED <<phase, items, list_widget, total_label, form,
                            orders_list, unregistered_orders,
                            unreg_orders_list, next_oid, wrap>>

delete_registered_order(D) ==
    /\ Ready
    /\ \E row \in Selections(orders_list), yes \in BOOLEAN,
          outcome \in SaveOutcomes(D) :
        IF row = 0 THEN Returns("delete_registered_order", 0, "none", MsgSelectOrder)
        ELSE IF ~yes THEN Returns("delete_registered_order", row, "no", MsgNone)
        ELSE IF row > Len(registered_orders)
        THEN Raises("delete_registered_order", row, "IndexError")
        ELSE LET reg == RemoveAt(registered_orders, row) IN
             /\ orders_list' = RemoveAt(orders_list, row)
             /\ registered_orders' = reg
             /\ orders_pkl' = save_data(orders_pkl, reg, unregistered_orders, outcome)
             /\ Saved(outcome)
             /\ stats_table' = Statistics(reg, unregistered_orders)
             /\ last' = Event("delete_registered_order", row, "yes", MsgNone, outcome)
             /\ UNCHANGED <<phase, items, list_widget, total_label, form,
                            unregistered_orders, unreg_orders_list, next_oid,
                            wrap>>

delete_unregistered_order(D) ==
    /\ Ready
    /\ \E row \in Selections(unreg_orders_list), yes \in BOOLEAN,
          outcome \in SaveOutcomes(D) :
        IF row = 0 THEN Returns("delete_unregistered_order", 0, "none", MsgSelectOrder)
        ELSE IF ~yes THEN Returns("delete_unregistered_order", row, "no", MsgNone)
        ELSE IF row > Len(unregistered_orders)
        THEN Raises("delete_unregistered_order", row, "IndexError")
        ELSE LET unreg == RemoveAt(unregistered_orders, row) IN
             /\ unreg_orders_list' = RemoveAt(unreg_orders_list, row)
             /\ unregistered_orders' = unreg
             /\ orders_pkl' = save_data(orders_pkl, registered_orders, unreg, outcome)
             /\ Saved(outcome)
             /\ stats_table' = Statistics(registered_orders, unreg)
             /\ last' = Event("delete_unregistered_order", row, "yes", MsgNone, outcome)
             /\ UNCHANGED <<phase, items, list_widget, total_label, form,
                            registered_orders, orders_list, next_oid, wrap>>

(* clear_all_data that does not wait for the answer to its question: a    *)
(* faulty variant.                                                         *)
clear_all_data_unconfirmed(D) ==
    /\ Ready
    /\ \E yes \in BOOLEAN, outcome \in SaveOutcomes(D) :
        /\ registered_orders' = <<>>
        /\ unregistered_orders' = <<>>
        /\ orders_list' = <<>>
        /\ unreg_orders_list' = <<>>
        /\ items' = <<>>
        /\ list_widget' = <<>>
        /\ total_label' = update_total(<<>>)
        /\ stats_table' = Statistics(<<>>, <<>>)
        /\ orders_pkl' = save_data(orders_pkl, <<>>, <<>>, outcome)
        /\ Saved(outcome)
        /\ last' = Event("clear_all_data", 0, IF yes THEN "yes" ELSE "no",
                         MsgAllDeleted, outcome)
        /\ UNCHANGED <<phase, form, next_oid, wrap>>

(* clear_all_data with save_data called before the lists are cleared       *)
(* instead of after: a faulty variant.                                     *)
clear_all_data_saved_first(D) ==
    /\ Ready
    /\ \E yes \in BOOLEAN, outcome \in SaveOutcomes(D) :
        IF ~yes THEN Returns("clear_all_data", 0, "no", MsgNone)
        ELSE /\ orders_pkl' = save_data(orders_pkl, registered_orders,
                                        unregistered_orders, outcome)
             /\ Saved(outcome)
             /\ registered_orders' = <<>>
             /\ unregistered_orders' = <<>>
             /\ orders_list' = <<>>
             /\ unreg_orders_list' = <<>>
             /\ items' = <<>>
             /\ list_widget' = <<>>
             /\ total_label' = update_total(<<>>)
             /\ stats_table' = Statistics(<<>>, <<>>)
             /\ last' = Event("clear_all_data", 0, "yes", MsgAllDeleted, outcome)
             /\ UNCHANGED <<phase, form, next_oid, wrap>>

clear_all_data(D) ==
    /\ Ready
    /\ \E yes \in BOOLEAN, outcome \in SaveOutcomes(D) :
        IF ~yes THEN Returns("clear_all_data", 0, "no", MsgNone)
        ELSE /\ registered_orders' = <<>>
             /\ unregistered_orders' = <<>>
             /\ orders_list' = <<>>
             /\ unreg_orders_list' = <<>>
             /\ items' = <<>>
             /\ list_widget' = <<>>
             /\ total_label' = update_total(<<>>)
             /\ stats_table' = Statistics(<<>>, <<>>)
             /\ orders_pkl' = save_data(orders_pkl, <<>>, <<>>, outcome)
             /\ Saved(outcome)
             /\ last' = Event("clear_all_data", 0, "yes", MsgAllDeleted, outcome)
             /\ UNCHANGED <<phase, form, next_oid, wrap>>

----------------------------------------------------------------------------
(* What the user types: the texts each specification draws from.           *)

PhoneText == <<"0", "9", "1", "2", "3", "4", "5", "6", "7", "8", "9">>
ShortPhoneText == <<"1", "2", "3", "4", "5">>
EmailText == <<"a", "@", "b", ".", "x">>
DateText == <<"2", "0", "2", "6", "/", "1", "1", "/", "0", "2">>

GoodForm ==
    [seller_name |-> <<"S">>, seller_phone |-> PhoneText,
     seller_email |-> EmailText, seller_address |-> <<"A">>,
     buyer_name |-> <<"B">>, buyer_phone |-> <<>>,
     buyer_address |-> <<"A">>, buyer_postal |-> <<"1">>,
     buyer_country |-> <<>>]

(* The ledger specification: few texts, so that the two order lists can    *)
(* grow; every save succeeds.                                              *)
LedgerTexts ==
    [forms |-> {GoodForm},
     item_names |-> {<<"A">>},
     item_prices |-> {<<"0", ".", "5">>, <<"x">>},
     item_quantities |-> {<<"3">>},
     item_units |-> {"adad"},
     dates |-> {DateText},
     edit_names |-> {<<" ", "C">>, <<" ">>},
     edit_phones |-> {ShortPhoneText},
     max_items |-> MaxItems,
     max_oid |-> MaxOid,
     max_save_failures |-> 0]

(* The draft specification: items of several prices and quantities, and    *)
(* the texts add_item refuses.                                             *)
DraftTexts ==
    [forms |-> {GoodForm},
     item_names |-> {<<"A">>, <<" ">>},
     item_prices |-> {<<"0", ".", "5">>, <<"0">>, <<"-", "1">>, <<"x">>},
     item_quantities |-> {<<"1">>, <<" ", "3">>, <<"1", ",", "0">>},
     item_units |-> {"adad"},
     dates |-> {DateText},
     edit_names |-> {},
     edit_phones |-> {},
     max_items |-> MaxItems,
     max_oid |-> FewOrders,
     max_save_failures |-> 0]

(* The forms specification: identity forms that pass validate_inputs and   *)
(* forms that fail each of its checks.                                     *)
MinimalForm == [EmptyForm EXCEPT !.seller_name = <<"S">>, !.buyer_name = <<"B">>]

Forms ==
    {GoodForm,
     MinimalForm,
     EmptyForm,
     [GoodForm EXCEPT !.seller_name = <<" ">>],
     [MinimalForm EXCEPT !.seller_name = <<>>],
     [GoodForm EXCEPT !.buyer_name = <<" ", " ">>],
     [GoodForm EXCEPT !.seller_phone = ShortPhoneText],
     [GoodForm EXCEPT !.buyer_phone = ShortPhoneText],
     [GoodForm EXCEPT !.buyer_phone = PhoneText],
     [GoodForm EXCEPT !.seller_email = <<"a", "@", "b">>]}

FormTexts ==
    [forms |-> Forms,
     item_names |-> {<<"A">>, <<>>},
     item_prices |-> {<<"0", ".", "5">>, <<"x">>},
     item_quantities |-> {<<"3">>, <<"0">>},
     item_units |-> {"adad"},
     dates |-> {DateText},
     edit_names |-> {<<" ", "C">>, <<" ">>},
     edit_phones |-> {ShortPhoneText, PhoneText},
     max_items |-> FewItems,
     max_oid |-> FewOrders,
     max_save_failures |-> 0]

(* The numbers specification: prices that are no binary fraction, nan,    *)
(* and texts that are no number.                                           *)
NumberTexts ==
    [forms |-> {GoodForm},
     item_names |-> {<<"A">>},
     item_prices |-> {<<"0", ".", "1">>, <<"n", "a", "n">>, <<"x">>},
     item_quantities |-> {<<"3">>, <<"0">>},
     item_units |-> {"adad"},
     dates |-> {DateText},
     edit_names |-> {<<" ", "C">>},
     edit_phones |-> {},
     max_items |-> FewItems,
     max_oid |-> FewOrders,
     max_save_failures |-> 0]

(* The phones specification: buyer phones of every kind, typed into the    *)
(* form and into the dialog of edit_order.                                 *)
BuyerPhones ==
    {<<>>,
     PhoneText,
     PhoneText \o <<" ">>,
     <<" ">> \o PhoneText,
     <<" ">>,
     ShortPhoneText,
     SubSeq(PhoneText, 1, 10),
     PhoneText \o <<"0">>,
     <<"0", "8">> \o SubSeq(PhoneText, 3, 11),
     SubSeq(PhoneText, 1, 10) \o <<"x">>}

PhoneTexts ==
    [forms |-> {[GoodForm EXCEPT !.buyer_name = name, !.buyer_phone = phone] :
                    name \in {<<"B">>, <<" ">>}, phone \in BuyerPhones},
     item_names |-> {<<"A">>},
     item_prices |-> {<<"0", ".", "5">>},
     item_quantities |-> {<<"3">>},
     item_units |-> {"adad"},
     dates |-> {DateText},
     edit_names |-> {<<"B">>, <<" ">>},
     edit_phones |-> BuyerPhones,
     max_items |-> FewItems,
     max_oid |-> FewOrders,
     max_save_failures |-> 0]

(* The save specification: a call of save_data may fail.                   *)
SaveTexts ==
    [forms |-> {GoodForm},
     item_names |-> {<<"A">>},
     item_prices |-> {<<"0", ".", "5">>},
     item_quantities |-> {<<"3">>},
     item_units |-> {"adad"},
     dates |-> {DateText},
     edit_names |-> {<<" ", "C">>},
     edit_phones |-> {},
     max_items |-> FewItems,
     max_oid |-> FewOrders,
     max_save_failures |-> MaxSaveFailures]

NextOver(D) ==
    \/ Startup
    \/ EventLoop
    \/ Close
    \/ FillForm(D)
    \/ add_item(D)
    \/ delete_item
    \/ clear_items
    \/ add_to_registered_orders(D)
    \/ add_to_unregistered_orders(D)
    \/ edit_order(D, TRUE)
    \/ edit_order(D, FALSE)
    \/ move_to_registered(D)
    \/ delete_registered_order(D)
    \/ delete_unregistered_order(D)
    \/ clear_all_data(D)

Next == NextOver(LedgerTexts)
NextDraft == NextOver(DraftTexts)
NextForms == NextOver(FormTexts)
NextSave == NextOver(SaveTexts)
NextNumbers == NextOver(NumberTexts)
NextPhones == NextOver(PhoneTexts)

Spec == Init /\ [][Next]_vars
SpecDraft == Init /\ [][NextDraft]_vars
SpecForms == Init /\ [][NextForms]_vars
SpecSave == Init /\ [][NextSave]_vars
SpecNumbers == Init /\ [][NextNumbers]_vars
SpecPhones == Init /\ [][NextPhones]_vars

----------------------------------------------------------------------------
(* wrap_text, which export_pdf calls on the two addresses.  It reads and   *)
(* writes nothing of the window: a call is its locals text, max_chars and  *)
(* lines, and the place it has reached.  Places of a text count from 0, as *)
(* in Python.                                                              *)

(* text.rfind(c, start, end)                                               *)
rfind(text, c, start, end) ==
    LET stop == IF end < Len(text) THEN end ELSE Len(text)
        found == {i \in start..(stop - 1) : text[i + 1] = c}
    IN  IF found = {} THEN -1
        ELSE CHOOSE i \in found : \A j \in found : j <= i

(* The body of the while loop with idx = text.rfind(" "): the last space   *)
(* of the whole text.  A faulty variant.                                   *)
wrap_text_body_rfind_everywhere(text, lines, max_chars) ==
    LET found == rfind(text, " ", 0, Len(text))
        idx == IF found = -1 THEN max_chars ELSE found
    IN  [lines |-> Append(lines, strip(SubSeq(text, 1, idx))),
         text |-> strip(SubSeq(text, idx + 1, Len(text)))]

(* The body of the while loop: lines.append(text[:idx].strip()) and        *)
(* text = text[idx:].strip().                                              *)
wrap_text_body(text, lines, max_chars) ==
    LET found == rfind(text, " ", 0, max_chars)
        idx == IF found = -1 THEN max_chars ELSE found
    IN  [lines |-> Append(lines, strip(SubSeq(text, 1, idx))),
         text |-> strip(SubSeq(text, idx + 1, Len(text)))]

(* The texts and widths wrap_text is called with.                          *)
WrapChars == {" ", "a", "\t"}
WrapTexts == UNION {[1..n -> WrapChars] : n \in 0..MaxTextLen}

(* wrap_text is entered: lines = [].                                       *)
InitWrap ==
    /\ phase = "start"
    /\ items = <<>>
    /\ list_widget = <<>>
    /\ total_label = <<>>
    /\ form = EmptyForm
    /\ registered_orders = <<>>
    /\ unregistered_orders = <<>>
    /\ orders_list = <<>>
    /\ unreg_orders_list = <<>>
    /\ stats_table = <<>>
    /\ orders_pkl = AbsentFile
    /\ last = Event("init", 0, "none", MsgNone, "none")
    /\ next_oid = 1
    /\ save_failures = 0
    /\ \E text \in WrapTexts, max_chars \in 1..MaxChars :
          wrap = [pc |-> "while", text |-> text, max_chars |-> max_chars,
                  lines |-> <<>>, result |-> <<>>]

(* One turn of the while loop.                                             *)
wrap_text_while ==
    /\ wrap.pc = "while"
    /\ Len(wrap.text) > wrap.max_chars
    /\ LET body == wrap_text_body(wrap.text, wrap.lines, wrap.max_chars)
       IN  wrap' = [wrap EXCEPT !.text = body.text, !.lines = body.lines]
    /\ UNCHANGED <<phase, items, list_widget, total_label, form,
                   registered_orders, unregistered_orders, orders_list,
                   unreg_orders_list, stats_table, orders_pkl, last, next_oid,
                   save_failures>>

(* The loop is left: the rest of the text is a line if it is not empty,    *)
(* and lines or [""] is returned.                                          *)
wrap_text_return ==
    /\ wrap.pc = "while"
    /\ Len(wrap.text) <= wrap.max_chars
    /\ LET lines == IF wrap.text # <<>> THEN Append(wrap.lines, wrap.text)
                    ELSE wrap.lines
       IN  wrap' = [wrap EXCEPT !.pc = "return",
                                !.lines = lines,
                                !.result = IF lines # <<>> THEN lines
                                           ELSE << <<>> >>]
    /\ UNCHANGED <<phase, items, list_widget, total_label, form,
                   registered_orders, unregistered_orders, orders_list,
                   unreg_orders_list, stats_table, orders_pkl, last, next_oid,
                   save_failures>>

NextWrap ==
    \/ wrap_text_while
    \/ wrap_text_return

(* A call of wrap_text runs on until it returns: nothing else runs in the  *)
(* thread that called it.                                                  *)
SpecWrap == InitWrap /\ [][NextWrap]_vars /\ WF_vars(NextWrap)

----------------------------------------------------------------------------
(* Properties.  What they need besides the state: the names of the         *)
(* handlers, a step in which a handler runs, and the notions of the        *)
(* specification (blank, a valid phone, a valid email, a sum, the nearest  *)
(* whole number) written out without the operators of the handlers.        *)

FinalizeOps == {"add_to_registered_orders", "add_to_unregistered_orders"}

LedgerOps ==
    FinalizeOps \cup {"edit_order", "move_to_registered", "delete_registered_order",
                      "delete_unregistered_order", "clear_all_data"}

IdentityErrors ==
    {MsgSellerNameEmpty, MsgBuyerNameEmpty, MsgSellerPhoneInvalid,
     MsgBuyerPhoneInvalid, MsgSellerEmailInvalid}

ValidationErrors ==
    IdentityErrors \cup {MsgNoItems, MsgItemNameEmpty, MsgInvalidNumber}

(* A step in which one of the handlers ops is run from the event loop.     *)
Runs(ops) == last = Idle /\ last'.op \in ops

IsBlank(t) == \A i \in 1..Len(t) : t[i] \in Whitespace

(* 09 followed by nine digits.                                             *)
PhoneShape(t) ==
    /\ Len(t) = 11
    /\ SubSeq(t, 1, 2) = <<"0", "9">>
    /\ \A i \in 3..11 : t[i] \in DecimalDigits

(* Word characters, points and hyphens, an @, the same again, a point and *)
(* word characters.                                                        *)
EmailShape(t) ==
    \E a \in 1..Len(t) : \E p \in 1..Len(t) :
        /\ 1 < a /\ a + 1 < p /\ p < Len(t)
        /\ t[a] = "@" /\ t[p] = "."
        /\ \A i \in 1..Len(t) :
              IF i < a \/ (a < i /\ i < p) THEN t[i] \in WordChars \cup {".", "-"}
              ELSE i > p => t[i] \in WordChars

IdentityValid(f) ==
    /\ ~IsBlank(f.seller_name)
    /\ ~IsBlank(f.buyer_name)
    /\ f.seller_phone = <<>> \/ PhoneShape(f.seller_phone)
    /\ f.buyer_phone = <<>> \/ PhoneShape(f.buyer_phone)
    /\ f.seller_email = <<>> \/ EmailShape(f.seller_email)

(* The sum of the line totals of a list of items, in units of 1/Den.       *)
RECURSIVE LineTotalsSum(_)
LineTotalsSum(its) ==
    IF its = <<>> THEN 0 ELSE Head(its)[5].v + LineTotalsSum(Tail(its))

(* The whole number nearest to q units of 1/Den, the even one of two       *)
(* equally near (q >= 0).                                                  *)
NearestWhole(q) ==
    CHOOSE n \in 0..(q + 1) :
        LET d == IF q >= n * Den THEN q - n * Den ELSE n * Den - q IN
        \/ 2 * d < Den
        \/ 2 * d = Den /\ n % 2 = 0

(* The number total_label shows, in units of 1/Den.                        *)
ShownTotal == float(RemoveCommas(total_label)).val.v

AllOrders == registered_orders \o unregistered_orders

Oids(orders) == {orders[i].oid : i \in 1..Len(orders)}

(* s2 is s without its element number i.                                   *)
IsWithout(s2, s, i) ==
    /\ Len(s2) = Len(s) - 1
    /\ \A j \in 1..Len(s2) : s2[j] = IF j < i THEN s[j] ELSE s[j + 1]

(* orders.pkl holds a dictionary of exactly the two lists in memory.       *)
StoreHoldsLedger ==
    /\ orders_pkl.exists
    /\ orders_pkl.blob.k = "dict"
    /\ DOMAIN orders_pkl.blob.obj = {"registered", "unregistered"}
    /\ orders_pkl.blob.obj.registered = registered_orders
    /\ orders_pkl.blob.obj.unregistered = unregistered_orders

(* orders.pkl is absent, unreadable, cut short, not a pickle, or not the   *)
(* pickle of a dictionary.                                                 *)
StoreUnusable ==
    \/ ~orders_pkl.exists
    \/ ~orders_pkl.readable
    \/ orders_pkl.blob.k # "dict"

----------------------------------------------------------------------------
(* C1, as stated: the number total_label shows is the sum of the line      *)
(* totals of the items in the draft (0 for the empty draft).  It fails: a  *)
(* draft of one item of total 0.5 shows 0.                                 *)
C1_ShownTotalIsSum ==
    phase = "running" => ShownTotal = LineTotalsSum(items)

(* C1, amended: after every sequence of draft handlers the number          *)
(* total_label shows is the sum of the line totals of the items in the     *)
(* draft rounded to the nearest whole number, a half going to the even     *)
(* neighbour; it is 0 for the empty draft.                                 *)
C1_ShownTotalIsRoundedSum ==
    phase = "running" =>
        /\ ShownTotal = Den * NearestWhole(LineTotalsSum(items))
        /\ items = <<>> => ShownTotal = 0

(* A row has been deleted from a draft whose remaining sum is no whole     *)
(* number.                                                                 *)
C1_Witness ==
    /\ last.op = "delete_item"
    /\ last.answer = "yes"
    /\ items # <<>>
    /\ LineTotalsSum(items) % Den # 0

----------------------------------------------------------------------------
(* C2: move_to_registered is all or nothing.  Run on a selected row and    *)
(* confirmed, it leaves unregistered_orders without the order of that row  *)
(* and registered_orders with that same order appended; run without a      *)
(* selection, on an empty list, or declined, it changes neither list.      *)
C2_MoveIsAtomic ==
    [][Runs({"move_to_registered"}) =>
          IF last'.row \in 1..Len(unregistered_orders) /\ last'.answer = "yes"
          THEN /\ IsWithout(unregistered_orders', unregistered_orders, last'.row)
               /\ registered_orders'
                    = Append(registered_orders, unregistered_orders[last'.row])
          ELSE UNCHANGED <<registered_orders, unregistered_orders>>]_vars

(* The first of two unregistered orders has been moved.                    *)
C2_Witness ==
    /\ last.op = "move_to_registered"
    /\ last.msg = MsgMoved
    /\ last.row = 1
    /\ Len(unregistered_orders) = 1
    /\ Len(registered_orders) = 1

----------------------------------------------------------------------------
(* C3: every order made by a finalize handler is in exactly one of the two *)
(* lists, once: no two places of the lists hold an order of the same       *)
(* finalize call; and a move keeps the orders there are, neither           *)
(* duplicating nor losing one.                                             *)
C3_OrderInExactlyOneList ==
    /\ [](\A i, j \in 1..Len(AllOrders) :
            AllOrders[i].oid = AllOrders[j].oid => i = j)
    /\ [][Runs({"move_to_registered"}) =>
            /\ Len(AllOrders') = Len(AllOrders)
            /\ Oids(AllOrders') = Oids(AllOrders)]_vars

(* An order has been moved and both lists hold an order.                   *)
C3_Witness ==
    /\ last.op = "move_to_registered"
    /\ last.msg = MsgMoved
    /\ unregistered_orders # <<>>
    /\ Len(registered_orders) >= 1

----------------------------------------------------------------------------
(* C4: in every state, the 'total' of every order of either list is the    *)
(* sum of the line totals of the order's items.                            *)
C4_StoredTotalIsSum ==
    \A i \in 1..Len(AllOrders) :
        /\ AllOrders[i].total.k = "fin"
        /\ AllOrders[i].total.v = LineTotalsSum(AllOrders[i].items)

(* An order of two items has been edited.                                  *)
C4_Witness ==
    /\ last.op = "edit_order"
    /\ last.msg = MsgEdited
    /\ \E i \in 1..Len(AllOrders) :
          /\ Len(AllOrders[i].items) = 2
          /\ AllOrders[i].buyer_name = <<"C">>

----------------------------------------------------------------------------
(* C5, as stated: a finalize handler run on an empty draft ends with the   *)
(* no-items message and appends nothing.  It fails: with an empty seller   *)
(* name the message is that of the seller name.                            *)
C5_EmptyDraftNoItemsError ==
    [][(Runs(FinalizeOps) /\ items = <<>>) =>
          /\ last'.msg = MsgNoItems
          /\ UNCHANGED <<registered_orders, unregistered_orders>>]_vars

(* C5, amended: a finalize handler run on an empty draft always fails and  *)
(* appends no order to either list.  The identity fields are tested        *)
(* first: the message is the no-items message when all identity fields are *)
(* valid, and the message of an identity field otherwise.                  *)
C5_EmptyDraftFails ==
    [][(Runs(FinalizeOps) /\ items = <<>>) =>
          /\ UNCHANGED <<registered_orders, unregistered_orders>>
          /\ IF IdentityValid(form) THEN last'.msg = MsgNoItems
             ELSE last'.msg \in IdentityErrors]_vars

(* The no-items message after a finalize handler on a valid form.          *)
C5_Witness ==
    /\ last.op \in FinalizeOps
    /\ last.msg = MsgNoItems
    /\ IdentityValid(form)
    /\ form.seller_phone # <<>>
    /\ items = <<>>

----------------------------------------------------------------------------
----------------------------------------------------------------------------
(* C7: a handler that ends with a validation message (add_item, the        *)
(* finalize handlers, edit_order) has changed nothing: the draft, both     *)
(* order lists with every order in them, the widgets that show them, the   *)
(* form and the file orders.pkl are as before.                             *)
C7_FailedValidationChangesNothing ==
    [][(last = Idle /\ last'.msg \in ValidationErrors) =>
          UNCHANGED <<items, list_widget, total_label, form, registered_orders,
                      unregistered_orders, orders_list, unreg_orders_list,
                      stats_table, orders_pkl>>]_vars

(* edit_order has refused a phone for an order of the list.                *)
C7_Witness ==
    /\ last.op = "edit_order"
    /\ last.msg = MsgBuyerPhoneInvalid
    /\ Len(AllOrders) = 1
    /\ AllOrders[1].buyer_phone = <<>>

----------------------------------------------------------------------------
----------------------------------------------------------------------------
(* C9, as stated: whatever is wrong with orders.pkl (absent, unreadable,   *)
(* cut short, corrupt, of the wrong shape), the start gets through         *)
(* load_data and runs with both lists empty.  It fails: an unreadable file *)
(* and a pickle that raises ValueError end the process.                    *)
C9_LoadNeverFailsStartup ==
    (last.op = "startup" /\ StoreUnusable) =>
        /\ phase = "running"
        /\ registered_orders = <<>>
        /\ unregistered_orders = <<>>

----------------------------------------------------------------------------
(* C10: the lists are loaded at the start, before any handler, and no      *)
(* handler changes them without calling save_data; after every ledger      *)
(* handler that has changed them and whose save_data succeeded, orders.pkl *)
(* holds exactly the two lists in memory.                                  *)
C10_StoreFollowsLedger ==
    /\ []((last.op \in LedgerOps /\ last.save = "ok") => StoreHoldsLedger)
    /\ [](phase = "start" =>
            registered_orders = <<>> /\ unregistered_orders = <<>>)
    /\ [][phase = "start" => last'.op = "startup"]_vars
    /\ [][(phase = "running" /\ phase' = "running"
           /\ <<registered_orders, unregistered_orders>>'
                # <<registered_orders, unregistered_orders>>)
          => (last'.op \in LedgerOps /\ last'.save # "none")]_vars

(* A delete has been saved after an earlier save had failed.               *)
C10_Witness ==
    /\ last.op \in {"delete_registered_order", "delete_unregistered_order"}
    /\ last.save = "ok"
    /\ save_failures > 0
    /\ StoreHoldsLedger

----------------------------------------------------------------------------
(* What a ledger handler shows when nothing has gone wrong: its message of  *)
(* success, or no message box at all.                                      *)
SuccessMessages ==
    {MsgRegistered, MsgRegisteredTemporarily, MsgEdited, MsgMoved,
     MsgAllDeleted, MsgNone}

SaveFailed(event) == event.save \in {"open_fails", "dump_fails"}

(* C11, as stated: a ledger handler whose save_data fails leaves both      *)
(* lists as they were before the handler.  It fails: the handler has       *)
(* changed its list before it calls save_data, and nothing undoes that.    *)
C11_FailedSaveLeavesLedger ==
    [][(Runs(LedgerOps) /\ SaveFailed(last')) =>
          UNCHANGED <<registered_orders, unregistered_orders>>]_vars

----------------------------------------------------------------------------
(* C12, as stated: a ledger handler whose save_data fails still completes, *)
(* keeps its change of the lists, leaves the program running, and makes    *)
(* the failure known: it does not end the way it ends after a successful   *)
(* save.  It fails: the message box is the message of success.             *)
C12_FailedSaveIsReported ==
    [][(Runs(LedgerOps) /\ SaveFailed(last')) =>
          /\ phase' = "running"
          /\ last'.msg \notin SuccessMessages]_vars

----------------------------------------------------------------------------
BuyerFields ==
    {"buyer_name", "buyer_phone", "buyer_address", "buyer_postal", "buyer_country"}

(* after is before with the order of place row replaced by one that        *)
(* differs from it in buyer fields at most.                                *)
EditedAt(after, before, row) ==
    /\ row \in 1..Len(before)
    /\ Len(after) = Len(before)
    /\ \A j \in 1..Len(before) : j # row => after[j] = before[j]
    /\ DOMAIN after[row] = DOMAIN before[row]
    /\ \A key \in DOMAIN before[row] \ BuyerFields :
          after[row][key] = before[row][key]

(* C13: a successful edit_order replaces the order of the edited row only, *)
(* by an order with the same date, seller fields, items and total that     *)
(* differs in the five buyer fields at most; both lists keep their length  *)
(* and every other order, and the other list is unchanged.                 *)
C13_EditReplacesBuyerFieldsOnly ==
    [][(Runs({"edit_order"}) /\ last'.msg = MsgEdited) =>
          \/ /\ EditedAt(registered_orders', registered_orders, last'.row)
             /\ UNCHANGED unregistered_orders
          \/ /\ EditedAt(unregistered_orders', unregistered_orders, last'.row)
             /\ UNCHANGED registered_orders]_vars

(* The second of two registered orders has been given another buyer name.  *)
C13_Witness ==
    /\ last.op = "edit_order"
    /\ last.msg = MsgEdited
    /\ last.row = 2
    /\ Len(registered_orders) = 2
    /\ registered_orders[1].buyer_name = <<"B">>
    /\ registered_orders[2].buyer_name = <<"C">>

----------------------------------------------------------------------------
DestructiveOps ==
    {"delete_registered_order", "delete_unregistered_order",
     "move_to_registered", "clear_all_data"}

(* C17: a delete of an order, a move to the registered list or a clear of  *)
(* all data that has not been confirmed (the question was answered No, or  *)
(* never asked for want of a selection) changes neither list nor the file  *)
(* orders.pkl.                                                             *)
C17_NoChangeWithoutConfirmation ==
    [][(Runs(DestructiveOps) /\ last'.answer # "yes") =>
          UNCHANGED <<registered_orders, unregistered_orders, orders_pkl>>]_vars

(* Clearing all data has been declined with an order in each list.         *)
C17_Witness ==
    /\ last.op = "clear_all_data"
    /\ last.answer = "no"
    /\ registered_orders # <<>>
    /\ unregistered_orders # <<>>

----------------------------------------------------------------------------
(* C18: a confirmed delete of the selected row of a list removes exactly   *)
(* the order of that row: the list is one shorter, the other orders keep   *)
(* their order, and the other list is unchanged; without a selection (or   *)
(* declined) neither list changes.                                         *)
C18_DeleteRemovesSelectedOrder ==
    [][Runs({"delete_registered_order", "delete_unregistered_order"}) =>
          LET registered == last'.op = "delete_registered_order"
              before == IF registered THEN registered_orders
                        ELSE unregistered_orders
              after == IF registered THEN registered_orders'
                       ELSE unregistered_orders'
          IN  IF last'.row \in 1..Len(before) /\ last'.answer = "yes"
              THEN /\ IsWithout(after, before, last'.row)
                   /\ IF registered THEN UNCHANGED unregistered_orders
                      ELSE UNCHANGED registered_orders
              ELSE UNCHANGED <<registered_orders, unregistered_orders>>]_vars

(* The first of two registered orders has been deleted.                    *)
C18_Witness ==
    /\ last.op = "delete_registered_order"
    /\ last.answer = "yes"
    /\ last.row = 1
    /\ Len(registered_orders) = 1
    /\ registered_orders[1].oid = 2

----------------------------------------------------------------------------
(* A start on orders.pkl as it is now would run with two empty lists.      *)
LoadsEmptyLedger ==
    load_data(orders_pkl)
        = [raised |-> "none", registered |-> <<>>, unregistered |-> <<>>]

ClearedAll == last.op = "clear_all_data" /\ last.answer = "yes"

----------------------------------------------------------------------------
(* C20: the items of an order are not the list of the draft.  No add_item, *)
(* delete_item or clear_items changes an order of either list; and a       *)
(* finalize handler, which ends with clear_form, leaves the new order with *)
(* the items the draft held, the draft empty and every older order as it   *)
(* was.                                                                    *)
C20_OrderItemsNotShared ==
    [][/\ Runs({"add_item", "delete_item", "clear_items"}) =>
            UNCHANGED <<registered_orders, unregistered_orders>>
       /\ (Runs(FinalizeOps) /\ last'.msg \notin ValidationErrors) =>
            /\ items' = <<>>
            /\ Len(AllOrders') = Len(AllOrders) + 1
            /\ \A i \in 1..Len(AllOrders') :
                  \/ \E j \in 1..Len(AllOrders) : AllOrders'[i] = AllOrders[j]
                  \/ /\ AllOrders'[i].oid \notin Oids(AllOrders)
                     /\ AllOrders'[i].items = items
                     /\ items # <<>>]_vars

(* A row of a new draft has been deleted while an order of two items is in *)
(* a list.                                                                 *)
C20_Witness ==
    /\ last.op = "delete_item"
    /\ last.answer = "yes"
    /\ \E i \in 1..Len(AllOrders) : Len(AllOrders[i].items) = 2

----------------------------------------------------------------------------
(* x > 0 for a float: no comparison with nan is true.                      *)
StrictlyPositive(x) ==
    \/ x.k = "fin" /\ x.v > 0
    \/ x.k = "inf" /\ x.v > 0

(* C14, as stated: add_item refuses every price and quantity that is no    *)
(* number or not above 0, so that every item of the draft has a unit price *)
(* above 0 and a quantity above 0.  It fails: the price text nan is        *)
(* accepted, and the item has the price nan.                               *)
C14_DraftItemsPositive ==
    \A i \in 1..Len(items) :
        /\ StrictlyPositive(items[i][2])
        /\ StrictlyPositive(items[i][3])

----------------------------------------------------------------------------
(* C15, as stated: the line total of every item of the draft is exactly    *)
(* its unit price times its quantity.  It fails: the product of the floats *)
(* is rounded to a float, as for the price 0.1 and the quantity 3.         *)
C15_LineTotalIsExactProduct ==
    \A i \in 1..Len(items) :
        (items[i][2].k = "fin" /\ items[i][3].k = "fin") =>
            /\ items[i][5].k = "fin"
            /\ items[i][5].v * Den = items[i][2].v * items[i][3].v

----------------------------------------------------------------------------
(* The sum of the stored totals of a list of orders, in units of 1/Den.    *)
RECURSIVE StoredTotalsSum(_)
StoredTotalsSum(orders) ==
    IF orders = <<>> THEN 0
    ELSE Head(orders).total.v + StoredTotalsSum(Tail(orders))

(* C16: for the lists of every state, update_statistics computes the       *)
(* number of registered orders, the number of unregistered orders, the sum *)
(* of the totals of the registered orders alone, and that sum divided by   *)
(* the number of registered orders (the nearest float; 0 without           *)
(* registered orders); and stats_table shows these four numbers.           *)
C16_Statistics ==
    phase = "running" =>
        LET st == update_statistics(registered_orders, unregistered_orders)
            count == Len(registered_orders)
            revenue == StoredTotalsSum(registered_orders)
            off == st.avg_order.v * count - revenue
        IN  /\ st.total_reg_orders = count
            /\ st.total_unreg_orders = Len(unregistered_orders)
            /\ st.total_amount = Fin(revenue)
            /\ st.avg_order.k = "fin"
            /\ count = 0 => st.avg_order.v = 0
            /\ count > 0 =>
                  2 * (IF off < 0 THEN -off ELSE off)
                      <= count * Spacing(st.avg_order.v)
            /\ stats_table = table_data(st)

(* A registered order and an unregistered one.                             *)
C16_Witness ==
    /\ phase = "running"
    /\ Len(registered_orders) = 1
    /\ unregistered_orders # <<>>
    /\ stats_table[3] # <<"0">>

----------------------------------------------------------------------------
(* What each handler makes of a buyer name and a buyer phone typed with    *)
(* everything else in order: validate_inputs on the form, and edit_order's *)
(* tests on what its dialog returns.                                       *)
FinalizeAcceptsBuyer(name, phone) ==
    validate_inputs([GoodForm EXCEPT !.buyer_name = name,
                                     !.buyer_phone = phone]).valid

EditAcceptsBuyer(name, phone) ==
    LET order == NewOrder(GoodForm, <<>>, DateText, 0)
        dialog == [buyer_name |-> name, buyer_phone |-> phone,
                   buyer_address |-> <<>>, buyer_postal |-> <<>>,
                   buyer_country |-> <<>>]
    IN  edit_check(get_updated_order(order, dialog)) = MsgNone

(* The dialog of edit_order was accepted in this step.                     *)
EditAnswered == Runs({"edit_order"}) /\ "typed" \in DOMAIN last'

(* C21, as stated: a buyer name and a buyer phone that edit_order accepts  *)
(* are a pair the finalize handlers accept, and a pair a finalize handler  *)
(* accepts or refuses is accepted or refused by edit_order too.  It fails: *)
(* the dialog trims the phone before it is tested, the form does not.      *)
C21_SameBuyerRules ==
    [][/\ EditAnswered =>
             (last'.msg = MsgEdited
                <=> FinalizeAcceptsBuyer(last'.typed.buyer_name,
                                         last'.typed.buyer_phone))
       /\ (Runs(FinalizeOps) /\ items # <<>>) =>
             (last'.msg \in SuccessMessages
                <=> EditAcceptsBuyer(form.buyer_name, form.buyer_phone))]_vars

----------------------------------------------------------------------------
(* The mobile-phone rule: the empty text, or 09 followed by nine digits.   *)
PhoneRuleAccepts(t) == t = <<>> \/ PhoneShape(t)

(* C24, as stated: with both names not blank, a finalize handler ends with *)
(* a phone message exactly when the seller's or the buyer's phone breaks   *)
(* the mobile-phone rule, and edit_order ends with the buyer-phone message *)
(* exactly when the phone typed into its dialog breaks the rule.  It       *)
(* fails: edit_order accepts a phone that obeys the rule only once         *)
(* trimmed.                                                                *)
C24_PhoneRule ==
    [][/\ (/\ Runs(FinalizeOps)
           /\ ~IsBlank(form.seller_name)
           /\ ~IsBlank(form.buyer_name)) =>
             /\ last'.msg = MsgSellerPhoneInvalid
                  <=> ~PhoneRuleAccepts(form.seller_phone)
             /\ PhoneRuleAccepts(form.seller_phone) =>
                  (last'.msg = MsgBuyerPhoneInvalid
                     <=> ~PhoneRuleAccepts(form.buyer_phone))
       /\ (EditAnswered /\ ~IsBlank(last'.typed.buyer_name)) =>
             (last'.msg = MsgBuyerPhoneInvalid
                <=> ~PhoneRuleAccepts(last'.typed.buyer_phone))]_vars

----------------------------------------------------------------------------
(* C25: every order of either list has at least one item, a buyer name     *)
(* that is not blank, and a buyer phone that is empty or 09 followed by    *)
(* nine digits.                                                            *)
C25_OrdersWellFormed ==
    \A i \in 1..Len(AllOrders) :
        /\ AllOrders[i].items # <<>>
        /\ ~IsBlank(AllOrders[i].buyer_name)
        /\ PhoneRuleAccepts(AllOrders[i].buyer_phone)

(* edit_order has accepted a phone typed with a space after it for an      *)
(* order that had none.                                                    *)
C25_Witness ==
    /\ "typed" \in DOMAIN last
    /\ last.msg = MsgEdited
    /\ last.typed.buyer_phone = PhoneText \o <<" ">>
    /\ Len(AllOrders) = 1
    /\ AllOrders[1].buyer_phone = PhoneText

----------------------------------------------------------------------------
(* A finalize handler has appended an order in this step.                  *)
Finalized == Runs(FinalizeOps) /\ last'.msg \in {MsgRegistered, MsgRegisteredTemporarily}

(* The order a finalize handler has appended in this step.                 *)
Appended ==
    IF last'.op = "add_to_registered_orders"
    THEN registered_orders'[Len(registered_orders')]
    ELSE unregistered_orders'[Len(unregistered_orders')]

(* C22, as stated: after a successful finalize handler the items of the    *)
(* draft and the identity fields are what they were before it.  It fails:  *)
(* the handler calls clear_form.                                           *)
C22_FinalizeKeepsDraft ==
    [][Finalized => UNCHANGED <<items, form>>]_vars

(* C22, amended: the order a successful finalize handler appends holds the *)
(* items and the nine identity texts the draft had before the handler, and *)
(* the handler then clears the draft itself: after it the list of items    *)
(* and every identity field are empty.                                     *)
C22_FinalizeTakesThenClearsDraft ==
    [][Finalized =>
          /\ items # <<>>
          /\ Appended.items = items
          /\ \A key \in DOMAIN form : Appended[key] = form[key]
          /\ items' = <<>>
          /\ list_widget' = <<>>
          /\ form' = EmptyForm]_vars

(* An order has been registered from a form that was filled in, and the    *)
(* form and the draft are empty.                                           *)
C22_Witness ==
    /\ last.op = "add_to_registered_orders"
    /\ last.msg = MsgRegistered
    /\ registered_orders # <<>>
    /\ registered_orders[Len(registered_orders)].buyer_name = <<"B">>
    /\ Len(registered_orders[Len(registered_orders)].items) = 2
    /\ items = <<>>
    /\ form = EmptyForm

----------------------------------------------------------------------------
(* C23: clear_items, once confirmed, empties the list of items (and the    *)
(* widget that shows it) and leaves the nine identity fields, both lists   *)
(* of orders with every order in them, and the file as they were.          *)
C23_ClearItemsKeepsIdentityAndLedger ==
    [][(Runs({"clear_items"}) /\ last'.answer = "yes") =>
          /\ items' = <<>>
          /\ list_widget' = <<>>
          /\ UNCHANGED <<form, registered_orders, unregistered_orders,
                         orders_list, unreg_orders_list, orders_pkl>>]_vars

(* The draft has been cleared under a form that is filled in, with an      *)
(* order in each list.                                                     *)
C23_Witness ==
    /\ last.op = "clear_items"
    /\ last.answer = "yes"
    /\ items = <<>>
    /\ form = GoodForm
    /\ Len(registered_orders) = 1
    /\ Len(unregistered_orders) = 1
    /\ registered_orders[1].items # <<>>

----------------------------------------------------------------------------
(* C26: while the program runs, each widget has as many rows as the list   *)
(* it shows has elements (the items of the draft, the registered orders,   *)
(* the unregistered orders), and no handler has ended in an IndexError: no *)
(* pop and no subscript has been given a row that its list does not have.  *)
C26_WidgetsFollowLists ==
    /\ phase = "running" =>
          /\ Len(list_widget) = Len(items)
          /\ Len(orders_list) = Len(registered_orders)
          /\ Len(unreg_orders_list) = Len(unregistered_orders)
    /\ last.msg # "IndexError"

(* The first of two registered orders has been deleted.                    *)
C26_Witness ==
    /\ last.op = "delete_registered_order"
    /\ last.answer = "yes"
    /\ last.row = 1
    /\ Len(registered_orders) = 1
    /\ Len(orders_list) = 1

----------------------------------------------------------------------------
(* C27: every call of wrap_text with max_chars >= 1 returns (each turn of  *)
(* its loop leaves a shorter text), and what it returns is a list of at    *)
(* least one line in which no line is longer than max_chars.               *)
C27_WrapTextReturnsShortLines ==
    /\ <>(wrap.pc = "return")
    /\ [][wrap'.pc = "while" => Len(wrap'.text) < Len(wrap.text)]_vars
    /\ [](wrap.pc = "return" =>
            /\ wrap.result # <<>>
            /\ \A i \in 1..Len(wrap.result) :
                  Len(wrap.result[i]) <= wrap.max_chars)

(* A call has returned three lines, one cut at a space and one cut where   *)
(* there was none.                                                         *)
C27_Witness ==
    /\ wrap.pc = "return"
    /\ wrap.max_chars = 2
    /\ wrap.result = << <<"a">>, <<"a", "a">>, <<"a">> >>

====
